---- MODULE Spec2Model ----
(***************************************************************************)
(* Model of src/app.py: the India-US news trends service.                  *)
(*                                                                         *)
(*   call_groq_api                 the LLM gateway (retry / backoff)       *)
(*   analyze_articles_in_batches   the batch analyzer                      *)
(*   consolidate_trends            the trend consolidator                  *)
(*   get_trends                    the /trends request handler, with the   *)
(*                                 article re-linking it does inline       *)
(*                                                                         *)
(* Each function is a small sequential process with a program counter; a   *)
(* call hands control to the callee and the caller resumes when the callee *)
(* has returned.  The LLM service and the feeds are the environment: what  *)
(* they answer is chosen nondeterministically from small sets.             *)
(***************************************************************************)
EXTENDS Integers, Sequences, FiniteSets, TLC

VARIABLES
    keySet,       \* GROQ_API_KEY is set and is not the placeholder
    gwPc,         \* call_groq_api: "idle", "enter", "loop", "except", "returned"
    gwCaller,     \* who called the gateway: "direct", "analyze", "consolidate"
    attempt,      \* call_groq_api: the loop variable `attempt` (0-based)
    exc,          \* the exception raised by the attempt in progress, or NoExc
    errs,         \* history: the messages of the failed attempts of this call
    waits,        \* history: the time.sleep durations of this call, in order
    made,         \* history: number of completions.create requests of this call
    gwResult,     \* what call_groq_api returned
    gwCalls,      \* history: number of call_groq_api calls so far
    anPc,         \* analyze_articles_in_batches: "idle", "start", "loop", "await", "pause", "returned"
    anCaller,     \* who called the analyzer: "direct", "trends"
    articles,     \* the article list (get_trends' local, the analyzer's parameter)
    batch_size,   \* the analyzer's batch_size parameter
    num_batches,  \* analyzer local
    i,            \* analyzer loop variable
    all_trends,   \* analyzer accumulator
    sent,         \* history: the batches handed to the gateway, in order
    results,      \* history: the gateway's result for each batch, in order
    pauses,       \* history: number of inter-batch time.sleep(15) calls
    coPc,         \* consolidate_trends: "idle", "start", "await", "returned"
    coCaller,     \* who called the consolidator: "direct", "trends"
    trends_list,  \* the consolidator's parameter
    coResult,     \* what consolidate_trends returned
    coCalls,      \* history: gateway calls issued by this consolidate_trends call
    trPc,         \* get_trends: "idle", "start", "fetched", "analyze", "consolidate", "enrich", "done"
    hours_back,   \* get_trends local (after clamping)
    response,     \* the HTTP response of get_trends
    args,         \* request.args: the `hours` and `batch_size` query parameters
    feed,         \* what get_articles_from_feeds returns for this request
    service,      \* the LLM service: the answers and the failures it may produce
    llmRequests,  \* history: number of completions.create requests of the whole run
    rlClock,      \* rate_limit: time.time()
    rlStore,      \* rate_limit: decorated_function.requests, client -> timestamps
    rlPc,         \* rate_limit: where each concurrent request stands
    rlIp,         \* rate_limit: client_ip of each request
    rlNow,        \* rate_limit: current_time of each request
    rlLocal,      \* rate_limit: the cleaned list a request has built and not yet stored
    rlAdmitted,   \* history: client -> times of the requests let through, in order
    rlStatus      \* rate_limit: the status each request was answered with (0: none yet)

gwVars == <<keySet, gwPc, gwCaller, attempt, exc, errs, waits, made, gwResult, gwCalls>>
anVars == <<anPc, anCaller, articles, batch_size, num_batches, i, all_trends, sent, results, pauses>>
coVars == <<coPc, coCaller, trends_list, coResult, coCalls>>
trVars == <<trPc, hours_back, response>>
envVars == <<args, feed, service>>
rlVars == <<rlClock, rlStore, rlPc, rlIp, rlNow, rlLocal, rlAdmitted, rlStatus>>
vars == <<gwVars, anVars, coVars, trVars, envVars, llmRequests, rlVars>>

----------------------------------------------------------------------------
(* Bounds of the model. *)

\* longest article list handed directly to analyze_articles_in_batches
MaxArticles == 3
\* largest batch_size handed directly to analyze_articles_in_batches
MaxBatch == 2
\* longest trends_list handed directly to consolidate_trends
MaxTrends == 2
\* longest article list over the pool that the feeds return to get_trends
MaxFetched == 2
\* length of the long article list the feeds return to get_trends (several batches)
LongFeed == 11
\* length of the very long article list the feeds return (more than ArticleLimit)
HugeFeed == 52

(* Program constants. *)
max_retries == 3
RateBackoff == 30
ApiBackoff == 15
ArticleLimit == 50
MinHours == 1
MaxHours == 168
MinBatchSize == 10
MaxBatchSize == 20

----------------------------------------------------------------------------
(* Exception texts.  str(e) is a sequence of characters; the gateway        *)
(* classifies a failure by substring tests on str(e).lower().               *)

NoExc == <<>>
\* "Rate limit"
RateLimitMsg == <<"R","a","t","e"," ","l","i","m","i","t">>
\* "API error"
ApiErrorMsg == <<"A","P","I"," ","e","r","r","o","r">>
\* "API rate cap": both substrings occur
ApiRateMsg == <<"A","P","I"," ","r","a","t","e"," ","c","a","p">>
\* "Expecting value": what json.loads raises on a non-JSON response
JsonDecodeMsg == <<"E","x","p","e","c","t","i","n","g"," ","v","a","l","u","e">>

Failures == {RateLimitMsg, ApiErrorMsg, ApiRateMsg, JsonDecodeMsg}

LowerChar(c) ==
    CASE c = "A" -> "a"
      [] c = "E" -> "e"
      [] c = "I" -> "i"
      [] c = "P" -> "p"
      [] c = "R" -> "r"
      [] OTHER -> c

Lower(s) == [k \in 1..Len(s) |-> LowerChar(s[k])]

Contains(sub, s) ==
    \E k \in 1..(Len(s) - Len(sub) + 1) : SubSeq(s, k, k + Len(sub) - 1) = sub

HasRate(e) == Contains(<<"r","a","t","e">>, Lower(e))
HasApi(e) == Contains(<<"a","p","i">>, Lower(e))

----------------------------------------------------------------------------
(* JSON values.  A gateway result is None or a JSON object; of an object    *)
(* only the keys `trends` and `report` are read.  A value under a key is a  *)
(* list (with its items), a string, a number, or absent (the key is not     *)
(* there).                                                                  *)

Absent == [type |-> "absent", items |-> <<>>]
StrVal == [type |-> "str", items |-> <<>>]
\* a non-zero number
NumVal == [type |-> "number", items |-> <<>>]
ListVal(s) == [type |-> "list", items |-> s]
NoneVal == [type |-> "None", items |-> <<>>]

None == [kind |-> "None", trends |-> Absent, report |-> Absent]
Obj(tr, rp) == [kind |-> "object", trends |-> tr, report |-> rp]

\* a JSON item of a list: a dict with its fields, or a string
Dict(f) == [type |-> "dict", fields |-> f]
Junk == [type |-> "str", fields |-> <<>>]

T1 == Dict([trend_name |-> "T1", relevant_articles |-> ListVal(<<"A", "B">>)])
T2 == Dict([trend_name |-> "T2", relevant_articles |-> ListVal(<<"B">>)])
F1 == Dict([trend_name |-> "F1", explanation |-> "E1",
            relevant_articles |-> ListVal(<<"A", "X", "A">>)])
F2 == Dict([trend_name |-> "F2", relevant_articles |-> ListVal(<<"B">>)])
F3 == Dict([trend_name |-> "F3", relevant_articles |-> StrVal])

RespTrends == Obj(ListVal(<<T1, T2>>), Absent)
RespBadTrends == Obj(StrVal, Absent)
RespReport == Obj(Absent, ListVal(<<F1, Junk, F2, F3>>))
RespEmptyLists == Obj(ListVal(<<>>), ListVal(<<>>))
RespEmpty == Obj(Absent, Absent)
RespNumReport == Obj(Absent, NumVal)

\* what the LLM service may answer to one request
Responses ==
    {RespTrends, RespBadTrends, RespReport, RespEmptyLists, RespEmpty, RespNumReport}

\* `key in response_json`
HasKey(r, key) == r.kind = "object" /\ r[key].type # "absent"
\* bool(response_json): None and the empty dict are falsy
TruthyResponse(r) == r.kind = "object" /\ (HasKey(r, "trends") \/ HasKey(r, "report"))
\* bool(v) of a value: None, the empty list and the empty string are falsy
TruthyVal(v) == (v.type = "list" /\ Len(v.items) > 0) \/ v.type \in {"str", "number"}

----------------------------------------------------------------------------
(* call_groq_api *)

\* lines 138 and 142: the failure classes the handler retries
Retriable(e) == HasRate(e) \/ HasApi(e)

\* faulty variant of WaitTime: the "api" test is made first
WaitTimeApiFirst(e, a) ==
    IF HasApi(e) THEN ApiBackoff * (a + 1) ELSE RateBackoff * (a + 1)

\* lines 139 and 143: wait_time, `a` being the loop variable `attempt`
WaitTime(e, a) ==
    IF HasRate(e) THEN RateBackoff * (a + 1) ELSE ApiBackoff * (a + 1)

\* faulty variant of MoreAttempts: one attempt too many
MoreAttemptsOffByOne(a) == a <= max_retries

\* the for loop goes on while attempt < max_retries
MoreAttempts(a) == a < max_retries

GwIdle ==
    /\ gwPc = "idle" /\ gwCaller = "none" /\ attempt = 0 /\ exc = NoExc
    /\ errs = <<>> /\ waits = <<>> /\ made = 0 /\ gwResult = None /\ gwCalls = 0

\* the caller's side of a call: a fresh activation of call_groq_api
GwCall(who) ==
    /\ gwPc' = "enter"
    /\ gwCaller' = who
    /\ attempt' = 0
    /\ exc' = NoExc
    /\ errs' = <<>>
    /\ waits' = <<>>
    /\ made' = 0
    /\ gwResult' = None
    /\ gwCalls' = gwCalls + 1
    /\ UNCHANGED keySet

\* lines 109-119: the key check and the client construction
GwEnter ==
    /\ gwPc = "enter"
    /\ IF ~keySet
         THEN gwPc' = "returned" /\ gwResult' = None
         ELSE \E clientOk \in BOOLEAN :
                IF clientOk
                  THEN gwPc' = "loop" /\ UNCHANGED gwResult
                  ELSE gwPc' = "returned" /\ gwResult' = None
    /\ UNCHANGED <<keySet, gwCaller, attempt, exc, errs, waits, made, gwCalls>>
    /\ UNCHANGED <<anVars, coVars, trVars>>
    /\ UNCHANGED <<envVars, rlVars>>
    /\ UNCHANGED llmRequests

\* lines 122-135: an attempt that succeeds returns the parsed JSON
GwAttemptOk ==
    /\ gwPc = "loop"
    /\ MoreAttempts(attempt)
    /\ \E r \in service.answers : gwResult' = r
    /\ gwPc' = "returned"
    /\ made' = made + 1
    /\ UNCHANGED <<keySet, gwCaller, attempt, exc, errs, waits, gwCalls>>
    /\ UNCHANGED <<anVars, coVars, trVars>>
    /\ UNCHANGED <<envVars, rlVars>>
    /\ llmRequests' = llmRequests + 1

\* lines 122-137: an attempt that raises (the request, or json.loads)
GwAttemptFail ==
    /\ gwPc = "loop"
    /\ MoreAttempts(attempt)
    /\ \E e \in service.failures : exc' = e /\ errs' = Append(errs, e)
    /\ gwPc' = "except"
    /\ made' = made + 1
    /\ UNCHANGED <<keySet, gwCaller, attempt, waits, gwResult, gwCalls>>
    /\ UNCHANGED <<anVars, coVars, trVars>>
    /\ UNCHANGED <<envVars, rlVars>>
    /\ llmRequests' = llmRequests + 1

\* faulty variant of GwExcept: an unclassified exception is re-raised
GwExceptReraise ==
    /\ gwPc = "except"
    /\ IF Retriable(exc)
         THEN /\ waits' = Append(waits, WaitTime(exc, attempt))
              /\ attempt' = attempt + 1
              /\ gwPc' = "loop"
              /\ exc' = NoExc
              /\ UNCHANGED gwResult
         ELSE /\ gwPc' = "returned"
              /\ UNCHANGED <<waits, attempt, gwResult, exc>>
    /\ UNCHANGED <<keySet, gwCaller, errs, made, gwCalls>>
    /\ UNCHANGED <<anVars, coVars, trVars>>
    /\ UNCHANGED <<envVars, rlVars>>
    /\ UNCHANGED llmRequests

\* lines 137-148: the handler; time.sleep(wait_time) is part of it
GwExcept ==
    /\ gwPc = "except"
    /\ IF Retriable(exc)
         THEN /\ waits' = Append(waits, WaitTime(exc, attempt))
              /\ attempt' = attempt + 1
              /\ gwPc' = "loop"
              /\ UNCHANGED gwResult
         ELSE /\ gwPc' = "returned"
              /\ gwResult' = None
              /\ UNCHANGED <<waits, attempt>>
    /\ exc' = NoExc
    /\ UNCHANGED <<keySet, gwCaller, errs, made, gwCalls>>
    /\ UNCHANGED <<anVars, coVars, trVars>>
    /\ UNCHANGED <<envVars, rlVars>>
    /\ UNCHANGED llmRequests

\* faulty variant of GwExhausted: the end of the loop is tested off by one and
\* the call never returns
GwExhaustedNever ==
    /\ gwPc = "loop"
    /\ attempt > max_retries
    /\ gwPc' = "returned"
    /\ gwResult' = None
    /\ UNCHANGED <<keySet, gwCaller, attempt, exc, errs, waits, made, gwCalls>>
    /\ UNCHANGED <<anVars, coVars, trVars>>
    /\ UNCHANGED <<envVars, rlVars>>
    /\ UNCHANGED llmRequests

\* lines 150-151: the loop is over
GwExhausted ==
    /\ gwPc = "loop"
    /\ ~MoreAttempts(attempt)
    /\ gwPc' = "returned"
    /\ gwResult' = None
    /\ UNCHANGED <<keySet, gwCaller, attempt, exc, errs, waits, made, gwCalls>>
    /\ UNCHANGED <<anVars, coVars, trVars>>
    /\ UNCHANGED <<envVars, rlVars>>
    /\ UNCHANGED llmRequests

----------------------------------------------------------------------------
(* Articles *)

Article(t, l) ==
    [title |-> t, link |-> l, summary |-> "summary", published |-> "time", source |-> "feed"]

\* the k-th entry of the feeds; titles repeat (A, B, A, A, B, A, ...)
FeedEntry(k) == Article(IF k % 3 = 2 THEN "B" ELSE "A", ToString(k))

\* the first n entries of the feeds
Feed(n) == [k \in 1..n |-> FeedEntry(k)]

\* every article list of length at most n over three articles, two of one title
ArticlePool == {Article("A", "1"), Article("B", "2"), Article("A", "3")}
ArticleLists(n) == UNION {[1..m -> ArticlePool] : m \in 0..n}

----------------------------------------------------------------------------
(* analyze_articles_in_batches *)

\* faulty variant of NumBatches: floor instead of ceiling
NumBatchesFloor(n, bs) == n \div bs

\* line 158
NumBatches(n, bs) == (n + bs - 1) \div bs

Min(a, b) == IF a < b THEN a ELSE b
Max(a, b) == IF a > b THEN a ELSE b

\* line 162: articles[k * bs : (k + 1) * bs], k counted from 0
Batch(as, k, bs) == SubSeq(as, k * bs + 1, Min((k + 1) * bs, Len(as)))

\* line 186
WellFormedTrends(r) ==
    TruthyResponse(r) /\ HasKey(r, "trends") /\ r.trends.type = "list"

\* faulty variant of ExtendTrends: a batch without trends clears the accumulator
ExtendTrendsReset(all, r) == IF WellFormedTrends(r) THEN all \o r.trends.items ELSE <<>>

\* lines 186-187
ExtendTrends(all, r) == IF WellFormedTrends(r) THEN all \o r.trends.items ELSE all

\* faulty variant of PauseAfter: the pause also follows the last batch
PauseAfterEvery(k, nb) == k < nb

\* line 190
PauseAfter(k, nb) == k < nb - 1

AnIdle ==
    /\ anPc = "idle" /\ anCaller = "none" /\ articles = <<>> /\ batch_size = 0
    /\ num_batches = 0 /\ i = 0 /\ all_trends = <<>> /\ sent = <<>> /\ results = <<>>
    /\ pauses = 0

\* the caller's side of a call: a fresh activation of the analyzer
AnCall(who, as, bs) ==
    /\ anPc' = "start"
    /\ anCaller' = who
    /\ articles' = as
    /\ batch_size' = bs
    /\ num_batches' = 0
    /\ i' = 0
    /\ all_trends' = <<>>
    /\ sent' = <<>>
    /\ results' = <<>>
    /\ pauses' = 0

\* lines 157-158
AnStart ==
    /\ anPc = "start"
    /\ all_trends' = <<>>
    /\ num_batches' = NumBatches(Len(articles), batch_size)
    /\ i' = 0
    /\ anPc' = "loop"
    /\ UNCHANGED <<anCaller, articles, batch_size, sent, results, pauses>>
    /\ UNCHANGED <<gwVars, coVars, trVars>>
    /\ UNCHANGED <<envVars, rlVars>>
    /\ UNCHANGED llmRequests

\* faulty variant of AnSend: the next batch is sent without awaiting the result
AnSendEager ==
    /\ anPc = "loop"
    /\ i < num_batches
    /\ sent' = Append(sent, Batch(articles, i, batch_size))
    /\ GwCall("analyze")
    /\ IF i + 1 < num_batches
         THEN anPc' = "loop" /\ i' = i + 1
         ELSE anPc' = "await" /\ UNCHANGED i
    /\ UNCHANGED <<anCaller, articles, batch_size, num_batches, all_trends, results, pauses>>
    /\ UNCHANGED <<coVars, trVars>>
    /\ UNCHANGED <<envVars, rlVars>>
    /\ UNCHANGED llmRequests

\* lines 160-185: slice the batch, build the prompts, call the gateway
AnSend ==
    /\ anPc = "loop"
    /\ i < num_batches
    /\ sent' = Append(sent, Batch(articles, i, batch_size))
    /\ GwCall("analyze")
    /\ anPc' = "await"
    /\ UNCHANGED <<anCaller, articles, batch_size, num_batches, i, all_trends, results, pauses>>
    /\ UNCHANGED <<coVars, trVars>>
    /\ UNCHANGED <<envVars, rlVars>>
    /\ UNCHANGED llmRequests

\* lines 185-190: the gateway has returned
AnReceive ==
    /\ anPc = "await"
    /\ gwPc = "returned" /\ gwCaller = "analyze"
    /\ all_trends' = ExtendTrends(all_trends, gwResult)
    /\ results' = Append(results, gwResult)
    /\ gwPc' = "idle"
    /\ IF PauseAfter(i, num_batches)
         THEN anPc' = "pause" /\ UNCHANGED i
         ELSE anPc' = "loop" /\ i' = i + 1
    /\ UNCHANGED <<anCaller, articles, batch_size, num_batches, sent, pauses>>
    /\ UNCHANGED <<keySet, gwCaller, attempt, exc, errs, waits, made, gwResult, gwCalls>>
    /\ UNCHANGED <<coVars, trVars>>
    /\ UNCHANGED <<envVars, rlVars>>
    /\ UNCHANGED llmRequests

\* line 191: time.sleep(15)
AnPause ==
    /\ anPc = "pause"
    /\ pauses' = pauses + 1
    /\ i' = i + 1
    /\ anPc' = "loop"
    /\ UNCHANGED <<anCaller, articles, batch_size, num_batches, all_trends, sent, results>>
    /\ UNCHANGED <<gwVars, coVars, trVars>>
    /\ UNCHANGED <<envVars, rlVars>>
    /\ UNCHANGED llmRequests

\* line 193
AnReturn ==
    /\ anPc = "loop"
    /\ i >= num_batches
    /\ anPc' = "returned"
    /\ UNCHANGED <<anCaller, articles, batch_size, num_batches, i, all_trends, sent, results, pauses>>
    /\ UNCHANGED <<gwVars, coVars, trVars>>
    /\ UNCHANGED <<envVars, rlVars>>
    /\ UNCHANGED llmRequests

----------------------------------------------------------------------------
(* consolidate_trends.  The digest text (lines 204-218) only feeds the      *)
(* prompt; what the LLM answers is the environment's choice.                *)

\* faulty variant of NothingToConsolidate: the empty list is not short-circuited
NothingToConsolidateNever(ts) == FALSE

\* line 199: `not trends_list`
NothingToConsolidate(ts) == Len(ts) = 0

\* faulty variant of ReportOf: a falsy report (the empty list) is turned into None
ReportOfIfTruthy(r) ==
    IF TruthyResponse(r) /\ HasKey(r, "report") /\ TruthyVal(r.report)
      THEN r.report
      ELSE NoneVal

\* lines 230-232
ReportOf(r) ==
    IF TruthyResponse(r) /\ HasKey(r, "report") THEN r.report ELSE NoneVal

CoIdle ==
    /\ coPc = "idle" /\ coCaller = "none" /\ trends_list = <<>>
    /\ coResult = NoneVal /\ coCalls = 0

CoCall(who, ts) ==
    /\ coPc' = "start"
    /\ coCaller' = who
    /\ trends_list' = ts
    /\ coResult' = NoneVal
    /\ coCalls' = 0

\* lines 199-200
CoNothing ==
    /\ coPc = "start"
    /\ NothingToConsolidate(trends_list)
    /\ coResult' = NoneVal
    /\ coPc' = "returned"
    /\ UNCHANGED <<coCaller, trends_list, coCalls>>
    /\ UNCHANGED <<gwVars, anVars, trVars>>
    /\ UNCHANGED <<envVars, rlVars>>
    /\ UNCHANGED llmRequests

\* lines 202-229
CoSend ==
    /\ coPc = "start"
    /\ ~NothingToConsolidate(trends_list)
    /\ GwCall("consolidate")
    /\ coCalls' = coCalls + 1
    /\ coPc' = "await"
    /\ UNCHANGED <<coCaller, trends_list, coResult>>
    /\ UNCHANGED <<anVars, trVars>>
    /\ UNCHANGED <<envVars, rlVars>>
    /\ UNCHANGED llmRequests

\* lines 229-232
CoReceive ==
    /\ coPc = "await"
    /\ gwPc = "returned" /\ gwCaller = "consolidate"
    /\ coResult' = ReportOf(gwResult)
    /\ coPc' = "returned"
    /\ gwPc' = "idle"
    /\ UNCHANGED <<coCaller, trends_list, coCalls>>
    /\ UNCHANGED <<keySet, gwCaller, attempt, exc, errs, waits, made, gwResult, gwCalls>>
    /\ UNCHANGED <<anVars, trVars>>
    /\ UNCHANGED <<envVars, rlVars>>
    /\ UNCHANGED llmRequests

----------------------------------------------------------------------------
(* get_trends *)

\* faulty variant of Clamp: the upper limit is not applied
ClampNoUpper(x, lo, hi) == Max(x, lo)

\* lines 291 and 294: min(max(x, lo), hi)
Clamp(x, lo, hi) == Min(Max(x, lo), hi)

\* the values of the `hours` and `batch_size` query parameters
HoursArgs == {0, 72, 500}
BatchArgs == {0, 15, 40}
RequestArgs == [hours : HoursArgs, batch_size : BatchArgs]
\* lines 290 and 293: the defaults
DefaultArgs == [hours |-> 72, batch_size |-> 15]

\* what the feeds may return
Fetched == ArticleLists(MaxFetched) \cup {Feed(LongFeed)}

\* faulty variant of NoArticles: the empty article set is not short-circuited
NoArticlesNever(as) == FALSE

\* line 299: `not articles`
NoArticles(as) == Len(as) = 0

\* faulty variant of Limit: the article list is not truncated
LimitNone(as) == as

\* lines 309-310
Limit(as) == IF Len(as) > ArticleLimit THEN SubSeq(as, 1, ArticleLimit) ELSE as

\* faulty variant of ArticleDict: the first article of a title is kept
ArticleDictFirst(as) ==
    [t \in {as[k].title : k \in 1..Len(as)} |->
        LET first == CHOOSE k \in 1..Len(as) :
                        /\ as[k].title = t
                        /\ \A m \in 1..Len(as) : as[m].title = t => k <= m
        IN  as[first]]

\* line 318: the dict comprehension; a later article replaces an earlier one
ArticleDict(as) ==
    [t \in {as[k].title : k \in 1..Len(as)} |->
        LET last == CHOOSE k \in 1..Len(as) :
                       /\ as[k].title = t
                       /\ \A m \in 1..Len(as) : as[m].title = t => m <= k
        IN  as[last]]

\* lines 338-344
Stub(t) ==
    [title |-> t, link |-> "# (Link not found)", summary |-> "Article details not available",
     published |-> "None", source |-> "Unknown"]

\* lines 334-344
Resolve(t, d) == IF t \in DOMAIN d THEN d[t] ELSE Stub(t)

\* dict.get(key, default)
Get(f, key, default) == IF key \in DOMAIN f THEN f[key] ELSE default

\* faulty variant of EnrichTitles: a title without an article is dropped
EnrichTitlesDropMissing(ra, d) ==
    IF ra.type = "list"
      THEN LET found == SelectSeq(ra.items, LAMBDA t : t \in DOMAIN d)
           IN  [k \in 1..Len(found) |-> d[found[k]]]
      ELSE <<>>

\* lines 331-344
EnrichTitles(ra, d) ==
    IF ra.type = "list" THEN [k \in 1..Len(ra.items) |-> Resolve(ra.items[k], d)] ELSE <<>>

\* lines 325-344
EnrichTrend(trend, d) ==
    [trend_name |-> Get(trend.fields, "trend_name", "N/A"),
     explanation |-> Get(trend.fields, "explanation", "No explanation provided."),
     relevant_articles |->
         EnrichTitles(Get(trend.fields, "relevant_articles", ListVal(<<>>)), d)]

\* lines 323-346: the items that are dicts, each enriched, in order
RECURSIVE EnrichAll(_, _)
EnrichAll(items, d) ==
    IF items = <<>> THEN <<>>
    ELSE IF Head(items).type = "dict"
           THEN <<EnrichTrend(Head(items), d)>> \o EnrichAll(Tail(items), d)
           ELSE EnrichAll(Tail(items), d)

\* lines 321-346
Enhance(final, as) ==
    IF TruthyVal(final) /\ final.type = "list"
      THEN EnrichAll(final.items, ArticleDict(as))
      ELSE <<>>

\* lines 300-306
EmptyResponse ==
    [status |-> 200, success |-> TRUE, message |-> "No recent articles found",
     trends |-> <<>>, trends_count |-> -1, articles_analyzed |-> 0, hours_back |-> -1,
     error |-> ""]

\* faulty variant of ReportResponse: an empty report is answered with an error status
ReportResponseFailing(enhanced, as, h) ==
    [status |-> IF enhanced = <<>> THEN 503 ELSE 200, success |-> enhanced # <<>>,
     message |-> "", trends |-> enhanced, trends_count |-> Len(enhanced),
     articles_analyzed |-> Len(as), hours_back |-> h, error |-> ""]

\* lines 348-355
ReportResponse(enhanced, as, h) ==
    [status |-> 200, success |-> TRUE, message |-> "",
     trends |-> enhanced, trends_count |-> Len(enhanced),
     articles_analyzed |-> Len(as), hours_back |-> h, error |-> ""]

\* str(e) of the TypeError that `for trend in final_trends` raises on a number
NotIterableMsg == "'int' object is not iterable"

\* line 323: iterating final_trends raises when it is a number
IterationRaises(final) == TruthyVal(final) /\ final.type = "number"

\* lines 357-363: the payload carries str(e)
ErrorResponse(e) ==
    [status |-> 500, success |-> FALSE, message |-> "",
     trends |-> <<>>, trends_count |-> -1, articles_analyzed |-> -1, hours_back |-> -1,
     error |-> e]

\* lines 375-379: the payload of the application's 500 handler
GenericError == "Internal server error"

NoResponse ==
    [status |-> 0, success |-> FALSE, message |-> "",
     trends |-> <<>>, trends_count |-> -1, articles_analyzed |-> -1, hours_back |-> -1,
     error |-> ""]

TrIdle == trPc = "idle" /\ hours_back = 0 /\ response = NoResponse

\* lines 290-297: the query parameters, clamped, and the fetch
TrFetch ==
    /\ trPc = "start"
    /\ hours_back' = Clamp(args.hours, MinHours, MaxHours)
    /\ batch_size' = Clamp(args.batch_size, MinBatchSize, MaxBatchSize)
    /\ articles' = feed
    /\ trPc' = "fetched"
    /\ UNCHANGED <<anPc, anCaller, num_batches, i, all_trends, sent, results, pauses>>
    /\ UNCHANGED <<response, gwVars, coVars>>
    /\ UNCHANGED <<envVars, rlVars>>
    /\ UNCHANGED llmRequests

\* lines 299-306
TrEmpty ==
    /\ trPc = "fetched"
    /\ NoArticles(articles)
    /\ response' = EmptyResponse
    /\ trPc' = "done"
    /\ UNCHANGED <<hours_back, gwVars, anVars, coVars>>
    /\ UNCHANGED <<envVars, rlVars>>
    /\ UNCHANGED llmRequests

\* lines 308-314
TrAnalyze ==
    /\ trPc = "fetched"
    /\ ~NoArticles(articles)
    /\ AnCall("trends", Limit(articles), batch_size)
    /\ trPc' = "analyze"
    /\ UNCHANGED <<hours_back, response, gwVars, coVars>>
    /\ UNCHANGED <<envVars, rlVars>>
    /\ UNCHANGED llmRequests

\* line 315
TrConsolidate ==
    /\ trPc = "analyze"
    /\ anPc = "returned" /\ anCaller = "trends"
    /\ CoCall("trends", all_trends)
    /\ anPc' = "idle"
    /\ trPc' = "consolidate"
    /\ UNCHANGED <<anCaller, articles, batch_size, num_batches, i, all_trends, sent, results, pauses>>
    /\ UNCHANGED <<hours_back, response, gwVars>>
    /\ UNCHANGED <<envVars, rlVars>>
    /\ UNCHANGED llmRequests

\* lines 317-355
TrRespond ==
    /\ trPc = "consolidate"
    /\ coPc = "returned" /\ coCaller = "trends"
    /\ ~IterationRaises(coResult)
    /\ response' = ReportResponse(Enhance(coResult, articles), articles, hours_back)
    /\ coPc' = "idle"
    /\ trPc' = "done"
    /\ UNCHANGED <<coCaller, trends_list, coResult, coCalls>>
    /\ UNCHANGED <<hours_back, gwVars, anVars>>
    /\ UNCHANGED <<envVars, rlVars>>
    /\ UNCHANGED llmRequests

\* lines 317-323 and 357-363: the enrichment raises, the handler answers 500
TrExcept ==
    /\ trPc = "consolidate"
    /\ coPc = "returned" /\ coCaller = "trends"
    /\ IterationRaises(coResult)
    /\ response' = ErrorResponse(NotIterableMsg)
    /\ coPc' = "idle"
    /\ trPc' = "done"
    /\ UNCHANGED <<coCaller, trends_list, coResult, coCalls>>
    /\ UNCHANGED <<hours_back, gwVars, anVars>>
    /\ UNCHANGED <<envVars, rlVars>>
    /\ UNCHANGED llmRequests

----------------------------------------------------------------------------
(* rate_limit: the concurrent requests of one decorated endpoint *)

Clients == {"c1", "c2"}

\* number of concurrent requests
NumThreads == 3
Threads == 1..NumThreads

\* line 286: @rate_limit(max_requests=2, per_minutes=60) on /trends
MaxRequests == 2
PerMinutes == 60
\* line 50: the window in seconds
Window == PerMinutes * 60

\* number of clock advances of half a window each
MaxTicks == 2
TickStep == Window \div 2

\* decorated_function.requests: per client IP, whether the key is there and
\* the list under it
NoEntry == [present |-> FALSE, times |-> <<>>]
Entry(ts) == [present |-> TRUE, times |-> ts]

RlIdle ==
    /\ rlClock = 0
    /\ rlStore = [c \in Clients |-> NoEntry]
    /\ rlPc = [t \in Threads |-> "idle"]
    /\ rlIp = [t \in Threads |-> "c1"]
    /\ rlNow = [t \in Threads |-> 0]
    /\ rlLocal = [t \in Threads |-> <<>>]
    /\ rlAdmitted = [c \in Clients |-> <<>>]
    /\ rlStatus = [t \in Threads |-> 0]

RlOthersUnchanged ==
    /\ UNCHANGED <<gwVars, anVars, coVars, trVars>>
    /\ UNCHANGED envVars
    /\ UNCHANGED llmRequests

\* lines 48-51: the timestamps younger than the window
Recent(ts, now) == SelectSeq(ts, LAMBDA req_time : now - req_time < Window)

\* line 53
AtLimit(ts) == Len(ts) >= MaxRequests

\* lines 38-39: a request arrives; its client and its arrival time
RlBegin(t) ==
    /\ rlPc[t] = "idle"
    /\ \E c \in Clients : rlIp' = [rlIp EXCEPT ![t] = c]
    /\ rlNow' = [rlNow EXCEPT ![t] = rlClock]
    /\ rlPc' = [rlPc EXCEPT ![t] = "key"]
    /\ UNCHANGED <<rlClock, rlStore, rlLocal, rlAdmitted, rlStatus>>
    /\ RlOthersUnchanged

\* line 44: `client_ip not in decorated_function.requests`
RlKey(t) ==
    /\ rlPc[t] = "key"
    /\ rlPc' = [rlPc EXCEPT ![t] = IF rlStore[rlIp[t]].present THEN "clean" ELSE "init"]
    /\ UNCHANGED <<rlClock, rlStore, rlIp, rlNow, rlLocal, rlAdmitted, rlStatus>>
    /\ RlOthersUnchanged

\* line 45: the client's list is created empty
RlInit(t) ==
    /\ rlPc[t] = "init"
    /\ rlStore' = [rlStore EXCEPT ![rlIp[t]] = Entry(<<>>)]
    /\ rlPc' = [rlPc EXCEPT ![t] = "clean"]
    /\ UNCHANGED <<rlClock, rlIp, rlNow, rlLocal, rlAdmitted, rlStatus>>
    /\ RlOthersUnchanged

\* lines 48-51, right-hand side: the cleaned list is built from the stored one
RlClean(t) ==
    /\ rlPc[t] = "clean"
    /\ rlLocal' = [rlLocal EXCEPT ![t] = Recent(rlStore[rlIp[t]].times, rlNow[t])]
    /\ rlPc' = [rlPc EXCEPT ![t] = "store"]
    /\ UNCHANGED <<rlClock, rlStore, rlIp, rlNow, rlAdmitted, rlStatus>>
    /\ RlOthersUnchanged

\* line 48, the assignment: the cleaned list replaces the stored one
RlStore(t) ==
    /\ rlPc[t] = "store"
    /\ rlStore' = [rlStore EXCEPT ![rlIp[t]] = Entry(rlLocal[t])]
    /\ rlPc' = [rlPc EXCEPT ![t] = "check"]
    /\ UNCHANGED <<rlClock, rlIp, rlNow, rlLocal, rlAdmitted, rlStatus>>
    /\ RlOthersUnchanged

\* lines 53-57: the limit is reached, 429, nothing recorded, handler not called
RlReject(t) ==
    /\ rlPc[t] = "check"
    /\ AtLimit(rlStore[rlIp[t]].times)
    /\ rlStatus' = [rlStatus EXCEPT ![t] = 429]
    /\ rlPc' = [rlPc EXCEPT ![t] = "done"]
    /\ UNCHANGED <<rlClock, rlStore, rlIp, rlNow, rlLocal, rlAdmitted>>
    /\ RlOthersUnchanged

\* line 53, the condition is false
RlPass(t) ==
    /\ rlPc[t] = "check"
    /\ ~AtLimit(rlStore[rlIp[t]].times)
    /\ rlPc' = [rlPc EXCEPT ![t] = "append"]
    /\ UNCHANGED <<rlClock, rlStore, rlIp, rlNow, rlLocal, rlAdmitted, rlStatus>>
    /\ RlOthersUnchanged

\* line 59: the arrival time is recorded
RlAppend(t) ==
    /\ rlPc[t] = "append"
    /\ rlStore' = [rlStore EXCEPT ![rlIp[t]] = Entry(Append(@.times, rlNow[t]))]
    /\ rlPc' = [rlPc EXCEPT ![t] = "handler"]
    /\ UNCHANGED <<rlClock, rlIp, rlNow, rlLocal, rlAdmitted, rlStatus>>
    /\ RlOthersUnchanged

\* line 60: the wrapped handler runs and answers
RlHandler(t) ==
    /\ rlPc[t] = "handler"
    /\ rlAdmitted' = [rlAdmitted EXCEPT ![rlIp[t]] = Append(@, rlNow[t])]
    /\ rlStatus' = [rlStatus EXCEPT ![t] = 200]
    /\ rlPc' = [rlPc EXCEPT ![t] = "done"]
    /\ UNCHANGED <<rlClock, rlStore, rlIp, rlNow, rlLocal>>
    /\ RlOthersUnchanged

\* line 39: time.time() advances
RlTick ==
    /\ rlClock < MaxTicks * TickStep
    /\ rlClock' = rlClock + TickStep
    /\ UNCHANGED <<rlStore, rlPc, rlIp, rlNow, rlLocal, rlAdmitted, rlStatus>>
    /\ RlOthersUnchanged

----------------------------------------------------------------------------
(* Specifications *)

\* the LLM service in full: every answer and every failure
FullService == [answers |-> Responses, failures |-> Failures]

\* the environment of a direct call of one of the functions
EnvDirect ==
    /\ args = DefaultArgs /\ feed = <<>> /\ service = FullService
    /\ llmRequests = 0
    /\ RlIdle

\* one /trends request
Init ==
    /\ keySet \in BOOLEAN
    /\ GwIdle /\ AnIdle /\ CoIdle
    /\ trPc = "start" /\ hours_back = 0 /\ response = NoResponse
    /\ args \in RequestArgs
    /\ feed \in Fetched
    /\ service = FullService
    /\ llmRequests = 0
    /\ RlIdle

Next ==
    \/ TrFetch \/ TrEmpty \/ TrAnalyze \/ TrConsolidate \/ TrRespond \/ TrExcept
    \/ AnStart \/ AnSend \/ AnReceive \/ AnPause \/ AnReturn
    \/ CoNothing \/ CoSend \/ CoReceive
    \/ GwEnter \/ GwAttemptOk \/ GwAttemptFail \/ GwExcept \/ GwExhausted

Spec == Init /\ [][Next]_vars

\* one /trends request that is never suspended: the handler is sequential
\* code, so whenever a step is possible a step is taken
InitLive ==
    /\ keySet \in BOOLEAN
    /\ GwIdle /\ AnIdle /\ CoIdle
    /\ trPc = "start" /\ hours_back = 0 /\ response = NoResponse
    /\ args \in RequestArgs
    /\ feed \in {<<>>, Feed(1), Feed(LongFeed)}
    /\ service = FullService
    /\ llmRequests = 0
    /\ RlIdle

SpecLive == InitLive /\ [][Next]_vars /\ WF_vars(Next)

\* the LLM service answering a trend list or an unusable object, and failing
\* with a retried or a non-retried error
LeanService ==
    [answers |-> {RespTrends, RespNumReport}, failures |-> {RateLimitMsg, JsonDecodeMsg}]

\* one /trends request over no, several or more than ArticleLimit articles
InitLong ==
    /\ keySet \in BOOLEAN
    /\ GwIdle /\ AnIdle /\ CoIdle
    /\ trPc = "start" /\ hours_back = 0 /\ response = NoResponse
    /\ args \in RequestArgs
    /\ feed \in {<<>>, Feed(LongFeed), Feed(HugeFeed)}
    /\ service = LeanService
    /\ llmRequests = 0
    /\ RlIdle

SpecLong == InitLong /\ [][Next]_vars

\* NumThreads requests to /trends handled by concurrent threads, the
\* decorator alone
InitRateLimit ==
    /\ keySet = TRUE
    /\ GwIdle /\ AnIdle /\ CoIdle /\ TrIdle
    /\ EnvDirect

NextRateLimit ==
    \/ \E t \in Threads : RlBegin(t)
    \/ \E t \in Threads : RlKey(t)
    \/ \E t \in Threads : RlInit(t)
    \/ \E t \in Threads : RlClean(t)
    \/ \E t \in Threads : RlStore(t)
    \/ \E t \in Threads : RlReject(t)
    \/ \E t \in Threads : RlPass(t)
    \/ \E t \in Threads : RlAppend(t)
    \/ \E t \in Threads : RlHandler(t)
    \/ RlTick

SpecRateLimit == InitRateLimit /\ [][NextRateLimit]_vars

\* one direct call of call_groq_api
InitGateway ==
    /\ keySet \in BOOLEAN
    /\ gwPc = "enter" /\ gwCaller = "direct" /\ attempt = 0 /\ exc = NoExc
    /\ errs = <<>> /\ waits = <<>> /\ made = 0 /\ gwResult = None /\ gwCalls = 1
    /\ AnIdle /\ CoIdle /\ TrIdle
    /\ EnvDirect

NextGateway ==
    GwEnter \/ GwAttemptOk \/ GwAttemptFail \/ GwExcept \/ GwExhausted

SpecGateway == InitGateway /\ [][NextGateway]_vars

\* one direct call of analyze_articles_in_batches, any batch_size >= 1
InitAnalyze ==
    /\ keySet \in BOOLEAN
    /\ GwIdle /\ CoIdle /\ TrIdle
    /\ anPc = "start" /\ anCaller = "direct"
    /\ \E n \in 0..MaxArticles : articles = Feed(n)
    /\ batch_size \in 1..MaxBatch
    /\ num_batches = 0 /\ i = 0 /\ all_trends = <<>> /\ sent = <<>> /\ results = <<>>
    /\ pauses = 0
    /\ EnvDirect

NextAnalyze ==
    \/ AnStart \/ AnSend \/ AnReceive \/ AnPause \/ AnReturn
    \/ GwEnter \/ GwAttemptOk \/ GwAttemptFail \/ GwExcept \/ GwExhausted

SpecAnalyze == InitAnalyze /\ [][NextAnalyze]_vars

\* one direct call of consolidate_trends
TrendLists(n) == UNION {[1..m -> {T1, T2, Junk}] : m \in 0..n}

InitConsolidate ==
    /\ keySet \in BOOLEAN
    /\ GwIdle /\ AnIdle /\ TrIdle
    /\ coPc = "start" /\ coCaller = "direct"
    /\ trends_list \in TrendLists(MaxTrends)
    /\ coResult = NoneVal /\ coCalls = 0
    /\ EnvDirect

NextConsolidate ==
    \/ CoNothing \/ CoSend \/ CoReceive
    \/ GwEnter \/ GwAttemptOk \/ GwAttemptFail \/ GwExcept \/ GwExhausted

SpecConsolidate == InitConsolidate /\ [][NextConsolidate]_vars

----------------------------------------------------------------------------
(* Properties *)

\* ceil(n / bs), stated without the code's formula
Ceil(n, bs) == CHOOSE k \in 0..n : k * bs >= n /\ (k = 0 \/ (k - 1) * bs < n)

RECURSIVE Flatten(_)
Flatten(ss) == IF ss = <<>> THEN <<>> ELSE Head(ss) \o Flatten(Tail(ss))

\* C1: for every batch_size >= 1 and every article list of length n the
\* analyzer issues exactly ceil(n / batch_size) gateway calls; the batches are
\* contiguous, order-preserving slices of at most batch_size articles that
\* cover every position exactly once, only the last being possibly smaller.
C1_BatchesPartitionInput ==
    /\ gwCalls = Len(sent)
    /\ Flatten(sent) = SubSeq(articles, 1, Len(Flatten(sent)))
    /\ \A k \in 1..Len(sent) :
         /\ Len(sent[k]) >= 1
         /\ Len(sent[k]) <= batch_size
         /\ k < Len(sent) => Len(sent[k]) = batch_size
    /\ anPc = "returned" =>
         /\ gwCalls = Ceil(Len(articles), batch_size)
         /\ Flatten(sent) = articles

C1_Witness ==
    /\ anPc = "returned"
    /\ Len(sent) = 2
    /\ Len(sent[1]) = 2 /\ Len(sent[2]) = 1

\* the failure classes, read off the exception text
RateClass(e) == Contains(<<"r","a","t","e">>, Lower(e))
ApiClass(e) == ~RateClass(e) /\ Contains(<<"a","p","i">>, Lower(e))
OtherClass(e) == ~RateClass(e) /\ ~ApiClass(e)

AllAttemptsFailed == Len(errs) = made

\* C2 as stated: a failed attempt of any kind is followed by another attempt
\* while fewer than 3 attempts have been made, so a call whose attempts all
\* failed has made 3 of them; never more than 3 attempts.
C2_RetriesOnAnyFailure ==
    /\ made <= 3
    /\ (gwPc = "returned" /\ made >= 1 /\ AllAttemptsFailed) => made = 3

\* C2 amended: only a rate-class or api-class failure is followed by another
\* attempt (while fewer than 3 have been made); a failure of any other class
\* ends the call with Failure at once.  At most 3 attempts are made, the call
\* stops at the first successful attempt, and it reports Failure after 3
\* failed attempts, after a failure of another class, or before any attempt.
C2_RetriesOnClassifiedFailure ==
    /\ made <= 3
    /\ made - 1 <= Len(errs) /\ Len(errs) <= made
    /\ \A k \in 1..Len(errs) : k < made => ~OtherClass(errs[k])
    /\ gwPc = "returned" =>
         IF AllAttemptsFailed
           THEN /\ gwResult = None
                /\ \/ made = 0
                   \/ made = 3 /\ ~OtherClass(errs[made])
                   \/ OtherClass(errs[made])
           ELSE /\ gwResult \in Responses

C2_Witness ==
    /\ gwPc = "returned" /\ gwResult = None
    /\ made = 3 /\ AllAttemptsFailed
    /\ RateClass(errs[1]) /\ ApiClass(errs[2])

\* C3: the wait after the k-th failed attempt is 30 * k for a rate-limit
\* failure and 15 * k for any other failure that is retried; the class of the
\* failure that just occurred selects the multiplier.
C3_BackoffByClass ==
    /\ Len(waits) <= Len(errs)
    /\ \A k \in 1..Len(waits) :
         waits[k] = IF RateClass(errs[k]) THEN 30 * k ELSE 15 * k

C3_Witness ==
    /\ Len(waits) = 2
    /\ errs[1] = ApiRateMsg /\ waits[1] = 30
    /\ errs[2] = ApiErrorMsg /\ waits[2] = 30

\* C4 as stated: no wait follows the final attempt; every wait is followed by
\* another attempt, so a call whose 3 attempts all fail waits exactly twice.
C4_NoWaitAfterFinalAttempt ==
    gwPc = "returned" =>
        /\ made >= 1 => Len(waits) < made
        /\ (made = 3 /\ AllAttemptsFailed) => Len(waits) = 2

\* C5: the gateway never raises: whatever the attempts do, it returns a
\* parsed JSON value or None, and no exception is left to reach the caller.
C5_GatewayNeverRaises ==
    gwPc = "returned" =>
        /\ exc = NoExc
        /\ gwResult = None \/ gwResult \in Responses

C5_Witness ==
    /\ gwPc = "returned" /\ gwResult = None
    /\ made = 1 /\ errs = <<JsonDecodeMsg>>

\* the trends a batch contributes, stated without the code's test
Contribution(r) ==
    IF r.kind = "object" /\ r.trends.type = "list" THEN r.trends.items ELSE <<>>

RECURSIVE Contributions(_)
Contributions(rs) ==
    IF rs = <<>> THEN <<>> ELSE Contribution(Head(rs)) \o Contributions(Tail(rs))

\* C6: the analyzer's result is the concatenation, in batch order, of the
\* `trends` arrays of the batches whose gateway result is an object with a
\* list-valued `trends`; any other batch contributes nothing and every later
\* batch is still sent.
C6_ResultIsConcatenation ==
    /\ all_trends = Contributions(results)
    /\ anPc = "returned" =>
         /\ Len(results) = Ceil(Len(articles), batch_size)
         /\ Len(sent) = Len(results)

C6_Witness ==
    /\ anPc = "returned"
    /\ Len(results) = 3
    /\ results[1] = RespTrends /\ results[2] = None /\ results[3] = RespTrends
    /\ all_trends = <<T1, T2, T1, T2>>

\* C7: consolidate_trends on the empty list returns null without a gateway
\* call; on a non-empty list it issues exactly one gateway call.
C7_OneGatewayCall ==
    /\ gwCalls <= 1
    /\ gwCalls = coCalls
    /\ Len(trends_list) = 0 => gwCalls = 0
    /\ coPc = "returned" =>
         IF Len(trends_list) = 0
           THEN coResult = NoneVal /\ gwCalls = 0
           ELSE gwCalls = 1

C7_Witness ==
    /\ coPc = "returned"
    /\ Len(trends_list) = 2
    /\ gwCalls = 1
    /\ coResult = RespReport.report

IsDict(x) == x.type = "dict"

\* a FinalTrend: a dict whose relevant_articles is a list of titles
IsFinalTrend(x) ==
    /\ IsDict(x)
    /\ "relevant_articles" \in DOMAIN x.fields
    /\ x.fields.relevant_articles.type = "list"

HasTitle(as, t) == \E k \in 1..Len(as) : as[k].title = t

IsStubFor(a, t) ==
    /\ a.title = t
    /\ a.link = "# (Link not found)"
    /\ a.published = "None"
    /\ a.source = "Unknown"

\* C8: enrichment is total and order- and count-preserving: the enriched
\* trend's relevant_articles is as long as the FinalTrend's title list and its
\* i-th element is an article with the i-th title, or the stub carrying that
\* title when no article has exactly that title.
C8_EnrichmentPreservesReferences ==
    (trPc = "done" /\ coResult.type = "list") =>
        LET finals == SelectSeq(coResult.items, IsDict)
        IN  /\ Len(response.trends) = Len(finals)
            /\ \A j \in 1..Len(finals) :
                 IsFinalTrend(finals[j]) =>
                     LET titles == finals[j].fields.relevant_articles.items
                         linked == response.trends[j].relevant_articles
                     IN  /\ Len(linked) = Len(titles)
                         /\ \A k \in 1..Len(titles) :
                              IF HasTitle(articles, titles[k])
                                THEN /\ linked[k].title = titles[k]
                                     /\ \E m \in 1..Len(articles) : articles[m] = linked[k]
                                ELSE IsStubFor(linked[k], titles[k])

C8_Witness ==
    /\ trPc = "done"
    /\ coResult = RespReport.report
    /\ Len(response.trends) = 3
    /\ Len(response.trends[1].relevant_articles) = 3
    /\ response.trends[1].relevant_articles[1] = Article("A", "1")
    /\ IsStubFor(response.trends[1].relevant_articles[2], "X")
    /\ IsStubFor(response.trends[2].relevant_articles[1], "B")

\* the analyzer produced nothing, or the consolidator returned null
StageEmpty ==
    /\ trPc = "done"
    /\ Len(articles) > 0
    /\ Len(all_trends) = 0 \/ coResult = NoneVal

\* C9 as stated: with articles but no preliminary trends or no report, the
\* response has a non-success status, distinct from the 200 success response.
C9_StageEmptyIsNonSuccess ==
    StageEmpty => response.status # 200 /\ ~response.success

\* C9 amended: with articles but no preliminary trends or no report, the
\* response is the 200 success response of a run that produced a report,
\* carrying an empty trends list, a trends count of 0 and the number of
\* articles analyzed.
C9_StageEmptyIsEmptySuccess ==
    StageEmpty =>
        /\ response.status = 200 /\ response.success
        /\ response.trends = <<>> /\ response.trends_count = 0
        /\ response.articles_analyzed = Len(articles)

C9_Witness ==
    /\ StageEmpty
    /\ Len(all_trends) = 2 /\ coResult = NoneVal
    /\ response.status = 200

\* C10: when the feeds return no article, /trends answers with a success
\* response carrying an empty trends list, and neither the analyzer nor the
\* consolidator nor the gateway is invoked.
C10_EmptyFeedShortCircuits ==
    (trPc # "start" /\ Len(articles) = 0) =>
        /\ anPc = "idle" /\ coPc = "idle" /\ gwPc = "idle"
        /\ gwCalls = 0 /\ Len(sent) = 0
        /\ trPc = "done" =>
             /\ response.status = 200 /\ response.success
             /\ response.trends = <<>>

C10_Witness ==
    /\ trPc = "done"
    /\ Len(articles) = 0
    /\ response = EmptyResponse

\* a call_groq_api call has started and its caller has not yet taken the result
GatewayBusy == gwPc \in {"enter", "loop", "except", "returned"}

\* gateway calls whose result the caller has taken
CallsCompleted == Len(results) + (IF coCalls = 1 /\ coPc # "await" THEN 1 ELSE 0)

\* C11: within one pipeline run the gateway calls are strictly sequential: at
\* most one is in progress at any time, the call for a batch starts only after
\* the call for the batch before it has returned, and the consolidation call
\* starts only after the call for the last batch has returned.
C11_GatewayCallsAreSequential ==
    /\ gwCalls = Len(sent) + coCalls
    /\ gwCalls - CallsCompleted = (IF GatewayBusy THEN 1 ELSE 0)
    /\ Len(sent) - Len(results) \in {0, 1}
    /\ (GatewayBusy /\ gwCaller = "analyze") =>
          /\ anPc = "await" /\ coPc = "idle"
          /\ Len(results) = Len(sent) - 1
    /\ coCalls >= 1 =>
          /\ anPc = "idle"
          /\ Len(results) = num_batches /\ Len(sent) = num_batches
    /\ (GatewayBusy /\ gwCaller = "consolidate") => coPc = "await"

C11_Witness ==
    /\ gwCaller = "consolidate" /\ gwPc = "loop" /\ attempt = 1
    /\ Len(results) = 2 /\ Len(sent) = 2
    /\ gwCalls = 3

\* C12 as stated: an exception that escapes the pipeline is answered with a
\* 500 response whose content is a generic message, not the exception's text.
C12_ErrorResponseIsGeneric ==
    (trPc = "done" /\ response.status = 500) =>
        /\ ~response.success
        /\ response.error = GenericError
        /\ response.error # NotIterableMsg

\* C13: the analyzer pauses exactly once between two consecutive batches and
\* never after the last: a run over k >= 1 batches makes k - 1 pauses, each
\* after a batch's gateway call has returned and before the next batch's call
\* starts, whether the batch succeeded or failed.
C13_PausesBetweenBatches ==
    /\ pauses <= Len(results)
    /\ anPc = "await" =>
         /\ pauses = Len(sent) - 1
         /\ Len(results) = Len(sent) - 1
    /\ anPc = "pause" =>
         /\ pauses = Len(sent) - 1
         /\ Len(results) = Len(sent)
         /\ Len(sent) < Ceil(Len(articles), batch_size)
    /\ anPc = "returned" =>
         LET k == Ceil(Len(articles), batch_size)
         IN  pauses = IF k >= 1 THEN k - 1 ELSE 0

C13_Witness ==
    /\ anPc = "returned"
    /\ Len(results) = 3
    /\ results[1] = None /\ results[2] = RespTrends
    /\ pauses = 2

\* C14: on a non-empty list consolidate_trends returns null when its gateway
\* call returns Failure or a response without a `report` key, and otherwise
\* exactly the value under `report`; a gateway Failure does not make it raise.
C14_ReportOrNull ==
    (coPc = "returned" /\ Len(trends_list) > 0) =>
        /\ gwCalls >= 1
        /\ coResult = IF gwResult = None \/ gwResult.report = Absent
                        THEN NoneVal
                        ELSE gwResult.report

C14_Witness ==
    /\ coPc = "returned" /\ Len(trends_list) > 0
    /\ gwResult = None /\ made = 3
    /\ coResult = NoneVal

\* C15: when several articles share a title, every reference to that title
\* resolves to the last article with that title in input order.
C15_DuplicateTitleResolvesToLast ==
    (trPc = "done" /\ response.status = 200 /\ coResult.type = "list") =>
        LET finals == SelectSeq(coResult.items, IsDict)
        IN  \A j \in 1..Len(finals) :
              IsFinalTrend(finals[j]) =>
                  LET titles == finals[j].fields.relevant_articles.items
                      linked == response.trends[j].relevant_articles
                  IN  \A k \in 1..Len(titles) :
                        HasTitle(articles, titles[k]) =>
                            \E m \in 1..Len(articles) :
                                /\ articles[m] = linked[k]
                                /\ articles[m].title = titles[k]
                                /\ \A n \in (m + 1)..Len(articles) :
                                     articles[n].title # titles[k]

C15_Witness ==
    /\ trPc = "done"
    /\ articles = <<Article("A", "1"), Article("A", "3")>>
    /\ coResult = RespReport.report
    /\ response.trends[1].relevant_articles[1] = Article("A", "3")
    /\ response.trends[1].relevant_articles[3] = Article("A", "3")

\* x brought into lo..hi, stated case by case
Within(x, lo, hi) == IF x < lo THEN lo ELSE IF x > hi THEN hi ELSE x

\* C16: whatever integers the query parameters hold, the lookback handed to
\* the article source is the parameter clamped into 1..168 and the batch_size
\* handed to the analyzer is the parameter clamped into 10..20; the analyzer
\* never runs with a batch_size below 1.
C16_ParametersAreClamped ==
    /\ trPc # "start" =>
         /\ hours_back = Within(args.hours, 1, 168)
         /\ batch_size = Within(args.batch_size, 10, 20)
         /\ hours_back \in 1..168
         /\ batch_size \in 10..20
    /\ anPc # "idle" => batch_size >= 1

C16_Witness ==
    /\ anPc = "await"
    /\ args.hours = 500 /\ hours_back = 168
    /\ args.batch_size = 0 /\ batch_size = 10

\* C17: every /trends run terminates whatever the gateway does: a gateway
\* call ends after at most 3 attempts and 3 waits, the analyzer sends each
\* batch once, and the request reaches a response.
C17_RequestTerminates ==
    /\ <>(trPc = "done" /\ response.status \in {200, 500})
    /\ [](made <= max_retries /\ Len(waits) <= max_retries)
    /\ [](Len(sent) <= num_batches)
    /\ [](anPc = "returned" => Len(sent) = num_batches)

C17_Witness ==
    /\ trPc = "done" /\ response.status = 200
    /\ gwCalls = 3 /\ llmRequests = 9

\* C18: one /trends request analyzes at most the first 50 articles in
\* batches of at least 10: at most 5 analysis gateway calls, at most 1
\* consolidation gateway call and at most 18 LLM request attempts, however
\* many articles were fetched and whatever the gateway does.
C18_BoundedLlmWork ==
    /\ Len(sent) <= 5
    /\ coCalls <= 1
    /\ gwCalls <= 6
    /\ llmRequests <= 18
    /\ anPc # "idle" => Len(articles) <= ArticleLimit /\ num_batches <= 5
    /\ trPc \in {"analyze", "consolidate", "done"} =>
           articles = SubSeq(feed, 1, Min(Len(feed), ArticleLimit))

C18_Witness ==
    /\ trPc = "done"
    /\ Len(feed) > ArticleLimit
    /\ Len(sent) = 5 /\ coCalls = 1 /\ gwCalls = 6 /\ llmRequests = 18

\* the requests of client c admitted with an arrival time in the window
\* that starts at time a
AdmittedIn(c, a) ==
    {k \in DOMAIN rlAdmitted[c] : rlAdmitted[c][k] >= a /\ rlAdmitted[c][k] - a < Window}

\* C19: for each client at most max_requests requests are admitted in any
\* window of per_minutes minutes, also when the client's requests are
\* handled concurrently; a rejected request gets 429, does not reach the
\* handler and is not recorded.
C19_AtMostMaxRequestsPerWindow ==
    /\ \A c \in Clients : \A k \in DOMAIN rlAdmitted[c] :
           Cardinality(AdmittedIn(c, rlAdmitted[c][k])) <= MaxRequests
    /\ \A t \in Threads : rlStatus[t] = 429 => rlPc[t] = "done"

====
